---- MODULE Spec2Model ----
(***************************************************************************)
(* StreamScout: the enrichment and resilience pipeline.                    *)
(*                                                                         *)
(*   - RateLimiter (lib/rate-limiter.ts): one token bucket per upstream,   *)
(*     driven by arbitrary callers (SpecRL); two limiters of one           *)
(*     configuration given the same acquire() calls, one of them also      *)
(*     asked getState() (SpecTwin).                                        *)
(*   - SimpleCache (lib/cache.ts), the three upstream clients              *)
(*     (getMovieDetails, getStreamingAvailability, getOMDbRatings) and     *)
(*     the GET /api/enrich route handler (SpecEnrich; SpecEnrichAnyBody    *)
(*     when the ratings upstream also sends untyped bodies; SpecEnrichLive *)
(*     when every issued fetch settles and every continuation runs;        *)
(*     SpecEnrichPair with two requests for one movie in progress).        *)
(*   - The three limiters of rateLimiters side by side (SpecBuckets).      *)
(*   - SimpleCache called directly (SpecCache).                            *)
(*   - validateMovieId, validateSearchQuery (lib/validation.ts), the       *)
(*     route's rating aggregation and trailer selection, and the URL and   *)
(*     headers of each outbound request, each called on its own with every *)
(*     argument of a bounded set (SpecValidateMovieId,                     *)
(*     SpecValidateSearchQuery, SpecAggregateRatings, SpecSelectTrailer,   *)
(*     SpecBuildRequest).                                                  *)
(*   - The GET /api/health route handler with its three probes and its     *)
(*     cached result (SpecHealth; SpecHealthPair with two requests in      *)
(*     progress).                                                          *)
(*                                                                         *)
(* Time is a global integer clock `now` (the value Date.now() returns).    *)
(* One clock unit is half a refill interval of the scaled configuration.   *)
(* A setTimeout callback runs at most TimerLag units after it falls due;   *)
(* any other handler may run at the due instant before the callback does.  *)
(*                                                                         *)
(* An async function is cut at its awaits: each action is the synchronous  *)
(* run of a handler between two suspension points.  Upstream bodies are    *)
(* values of the declared response types (lib/types.ts).                   *)
(***************************************************************************)
EXTENDS Integers, Sequences, FiniteSets, TLC

\* ------------------------------------------------------------------------
\* Bounds of the model
\* ------------------------------------------------------------------------
MaxTime == 6
MaxCallers == 4
\* how many clock units a due setTimeout callback may run late
TimerLag == 0

\* Scaled bucket configurations.  The program's buckets are 40/4/1000 ms
\* (tmdb: refillRate < maxTokens) and 10/10/1000 ms (omdb, streaming:
\* refillRate = maxTokens); the model keeps the two shapes.
BurstTokens == 2
SteadyRate == 1
FlatTokens == 1
RefillInterval == 2

\* ------------------------------------------------------------------------
\* Helpers
\* ------------------------------------------------------------------------
Min(a, b) == IF a <= b THEN a ELSE b
Max(a, b) == IF a >= b THEN a ELSE b
CeilDiv(a, b) == (a + b - 1) \div b

APIs == {"tmdb", "omdb", "streaming"}

\* rateLimiters: the pre-configured limiter of each API
config(api) ==
  IF api = "tmdb"
    THEN [maxTokens |-> BurstTokens, refillRate |-> SteadyRate,
          refillInterval |-> RefillInterval]
    ELSE [maxTokens |-> FlatTokens, refillRate |-> FlatTokens,
          refillInterval |-> RefillInterval]

VARIABLES
  now,              \* Date.now()
  tokens,           \* RateLimiter.tokens, per API
  lastRefillTime,   \* RateLimiter.lastRefillTime, per API
  pendingRequests,  \* RateLimiter.pendingRequests, per API: caller ids, FIFO
  timers,           \* armed setTimeout callbacks per API: their due times
  callInfo,         \* history: per API, one record per acquire() call
  admitted,         \* history: per API, the admissions in the order made
  refills,          \* history: per API, refills that added intervals
  burst             \* history: acquire() calls since the bucket was last
                    \* refilled to full (-1: last refill left it not full)

rlVars == <<tokens, lastRefillTime, pendingRequests, timers,
            callInfo, admitted, refills, burst>>

VARIABLES
  keyConfigured,  \* API_KEY of each client module is set
  cache,          \* SimpleCache.cache: key -> entry
  req,            \* the Enrich requests in progress, per request slot
  netCalls,       \* history: outbound fetch() calls issued, per API
  received        \* history: Enrich requests received so far

enrichVars == <<keyConfigured, cache, req, netCalls, received>>

VARIABLES
  lastGet,        \* history: the last cache.get() made directly, if no
                  \* cache.set() came after it
  written         \* history: key -> the value and time of its last set()

cacheOpVars == <<lastGet, written>>

VARIABLES
  arg,            \* the argument of a function called on its own
  result          \* what that call returned

callVars == <<arg, result>>

VARIABLES
  cachedHealthCheck,   \* the health route's cached result, or null
  hreq,                \* the Health requests in progress, per request slot
  tmdbKeyConfigured,   \* process.env.TMDB_API_KEY is set
  healthReceived       \* history: Health requests received so far

healthVars == <<cachedHealthCheck, hreq, tmdbKeyConfigured, healthReceived>>

\* what the limiters and the Enrich route leave alone
otherVars == <<cacheOpVars, callVars, healthVars>>
vars == <<now, rlVars, enrichVars, otherVars>>

\* ------------------------------------------------------------------------
\* RateLimiter
\* ------------------------------------------------------------------------
\* refill(): the intervals elapsed since lastRefillTime
intervalsElapsed(api) ==
  (now - lastRefillTime[api]) \div config(api).refillInterval

refillTokens_NoCap(api) ==
  IF intervalsElapsed(api) > 0
    THEN tokens[api] + intervalsElapsed(api) * config(api).refillRate
    ELSE tokens[api]

\* refill(): the token count it leaves
refillTokens(api) ==
  IF intervalsElapsed(api) > 0
    THEN Min(config(api).maxTokens,
             tokens[api] + intervalsElapsed(api) * config(api).refillRate)
    ELSE tokens[api]

refillTime_Always(api) == now

refillTime_Stale(api) == lastRefillTime[api]

\* refill(): the lastRefillTime it leaves
refillTime(api) ==
  IF intervalsElapsed(api) > 0 THEN now ELSE lastRefillTime[api]

\* history kept next to refill()
refillsAfter(api) ==
  IF intervalsElapsed(api) > 0 THEN refills[api] + 1 ELSE refills[api]

burstAfterRefill(api) ==
  IF intervalsElapsed(api) > 0
    THEN (IF refillTokens(api) = config(api).maxTokens THEN 0 ELSE -1)
    ELSE burst[api]

takeToken_Keep(t) == t

\* acquire(): this.tokens-- on the immediate path
takeToken(t) == t - 1

shiftN_Keep(q, k) == [out |-> SubSeq(q, 1, k), rest |-> q]

shiftN_Pop(q, k) ==
  [out  |-> [i \in 1..k |-> q[Len(q) + 1 - i]],
   rest |-> SubSeq(q, 1, Len(q) - k)]

\* processPendingRequests(): k times pendingRequests.shift()
shiftN(q, k) ==
  [out  |-> SubSeq(q, 1, k),
   rest |-> SubSeq(q, k + 1, Len(q))]

\* processPendingRequests(): how many callers the while loop resolves
drainCount(q, t) == Min(Len(q), t)

\* acquire(): the delay handed to setTimeout
nextRefillIn(api, lrt) ==
  Max(0, config(api).refillInterval - (now - lrt))

totalCalls ==
  Len(callInfo["tmdb"]) + Len(callInfo["omdb"]) + Len(callInfo["streaming"])

\* no call has reached this limiter yet
untouched(api) ==
  /\ callInfo[api] = <<>>
  /\ lastRefillTime[api] = 0

\* the callers of this behaviour address one limiter only
Solo(api) == \A a \in APIs \ {api} : untouched(a)

\* constructor, for the three limiters of rateLimiters
InitRL ==
  /\ tokens = [a \in APIs |-> config(a).maxTokens]
  /\ lastRefillTime = [a \in APIs |-> 0]
  /\ pendingRequests = [a \in APIs |-> <<>>]
  /\ timers = [a \in APIs |-> <<>>]
  /\ callInfo = [a \in APIs |-> <<>>]
  /\ admitted = [a \in APIs |-> <<>>]
  /\ refills = [a \in APIs |-> 0]
  /\ burst = [a \in APIs |-> 0]

\* acquire()
Acquire(api) ==
  LET t   == refillTokens(api)
      lrt == refillTime(api)
      id  == Len(callInfo[api]) + 1
      b   == IF burstAfterRefill(api) >= 0
               THEN burstAfterRefill(api) + 1 ELSE -1
      rf  == refillsAfter(api)
      pos == Len(pendingRequests[api]) + 1
  IN
  /\ totalCalls < MaxCallers
  /\ lastRefillTime' = [lastRefillTime EXCEPT ![api] = lrt]
  /\ refills' = [refills EXCEPT ![api] = rf]
  /\ burst' = [burst EXCEPT ![api] = b]
  /\ IF t > 0
       THEN /\ tokens' = [tokens EXCEPT ![api] = takeToken(t)]
            /\ admitted' = [admitted EXCEPT ![api] =
                 Append(@, [id |-> id, time |-> now, refills |-> rf])]
            /\ callInfo' = [callInfo EXCEPT ![api] =
                 Append(@, [time |-> now, queued |-> FALSE, refills |-> rf,
                            burstIdx |-> b, deadline |-> now])]
            /\ UNCHANGED <<pendingRequests, timers>>
       ELSE /\ tokens' = [tokens EXCEPT ![api] = t]
            /\ pendingRequests' = [pendingRequests EXCEPT ![api] = Append(@, id)]
            /\ timers' = [timers EXCEPT ![api] =
                 Append(@, now + nextRefillIn(api, lrt))]
            /\ callInfo' = [callInfo EXCEPT ![api] =
                 Append(@, [time |-> now, queued |-> TRUE, refills |-> rf,
                            burstIdx |-> b,
                            deadline |-> lrt +
                              CeilDiv(pos, config(api).refillRate)
                                * config(api).refillInterval])]
            /\ UNCHANGED admitted
  /\ UNCHANGED <<now, enrichVars, otherVars>>

\* the setTimeout callback of acquire(): refill(); processPendingRequests()
TimerFire(api) ==
  LET t   == refillTokens(api)
      rf  == refillsAfter(api)
      k   == drainCount(pendingRequests[api], t)
      sh  == shiftN(pendingRequests[api], k)
  IN
  /\ timers[api] # <<>>
  /\ Head(timers[api]) <= now
  /\ timers' = [timers EXCEPT ![api] = Tail(@)]
  /\ lastRefillTime' = [lastRefillTime EXCEPT ![api] = refillTime(api)]
  /\ refills' = [refills EXCEPT ![api] = rf]
  /\ burst' = [burst EXCEPT ![api] =
       IF k > 0 THEN -1 ELSE burstAfterRefill(api)]
  /\ tokens' = [tokens EXCEPT ![api] = t - k]
  /\ pendingRequests' = [pendingRequests EXCEPT ![api] = sh.rest]
  /\ admitted' = [admitted EXCEPT ![api] =
       @ \o [i \in 1..k |-> [id |-> sh.out[i], time |-> now, refills |-> rf]]]
  /\ UNCHANGED <<now, callInfo, enrichVars, otherVars>>

\* getState()
GetState(api) ==
  /\ tokens' = [tokens EXCEPT ![api] = refillTokens(api)]
  /\ lastRefillTime' = [lastRefillTime EXCEPT ![api] = refillTime(api)]
  /\ refills' = [refills EXCEPT ![api] = refillsAfter(api)]
  /\ burst' = [burst EXCEPT ![api] = burstAfterRefill(api)]
  /\ UNCHANGED <<now, pendingRequests, timers, callInfo, admitted, enrichVars,
               otherVars>>

\* ------------------------------------------------------------------------
\* Strings are sequences of one-character strings; Null is searchParams'
\* null for a missing parameter.
\* ------------------------------------------------------------------------
Null == <<"<null>">>
Digits == {"0", "1", "2", "3", "4", "5", "6", "7", "8", "9"}
WhiteSpace == {" ", "\t"}

DigitVal(c) ==
  CASE c = "0" -> 0 [] c = "1" -> 1 [] c = "2" -> 2 [] c = "3" -> 3
    [] c = "4" -> 4 [] c = "5" -> 5 [] c = "6" -> 6 [] c = "7" -> 7
    [] c = "8" -> 8 [] c = "9" -> 9

DigitChar(d) ==
  CASE d = 0 -> "0" [] d = 1 -> "1" [] d = 2 -> "2" [] d = 3 -> "3"
    [] d = 4 -> "4" [] d = 5 -> "5" [] d = 6 -> "6" [] d = 7 -> "7"
    [] d = 8 -> "8" [] d = 9 -> "9"

RECURSIVE SkipWhiteSpace(_)
SkipWhiteSpace(s) ==
  IF s # <<>> /\ Head(s) \in WhiteSpace THEN SkipWhiteSpace(Tail(s)) ELSE s

RECURSIVE DigitPrefix(_)
DigitPrefix(s) ==
  IF s # <<>> /\ Head(s) \in Digits
    THEN <<Head(s)>> \o DigitPrefix(Tail(s)) ELSE <<>>

RECURSIVE DigitsValue(_, _)
DigitsValue(ds, acc) ==
  IF ds = <<>> THEN acc
  ELSE DigitsValue(Tail(ds), 10 * acc + DigitVal(Head(ds)))

\* parseInt(s, 10): leading white space, an optional sign, the longest
\* run of digits; NaN when there is no digit
parseInt(s) ==
  LET t    == SkipWhiteSpace(s)
      neg  == t # <<>> /\ Head(t) = "-"
      body == IF t # <<>> /\ Head(t) \in {"-", "+"} THEN Tail(t) ELSE t
      ds   == DigitPrefix(body)
  IN IF ds = <<>> THEN [nan |-> TRUE, n |-> 0]
     ELSE [nan |-> FALSE,
           n |-> IF neg THEN 0 - DigitsValue(ds, 0) ELSE DigitsValue(ds, 0)]

RECURSIVE NatToString(_)
NatToString(n) ==
  IF n < 10 THEN <<DigitChar(n)>>
  ELSE NatToString(n \div 10) \o <<DigitChar(n % 10)>>

\* Number.prototype.toString() of an integer
toString(n) == IF n < 0 THEN <<"-">> \o NatToString(0 - n) ELSE NatToString(n)

\* a character sequence as one string value (template literals, keys)
RECURSIVE StrOf(_)
StrOf(s) == IF s = <<>> THEN "" ELSE Head(s) \o StrOf(Tail(s))

MaxMovieId == 10000000

validateMovieId_NoRoundTrip(id) ==
  IF id = Null \/ id = <<>>
    THEN [valid |-> FALSE, error |-> "Movie ID is required"]
  ELSE LET parsed == parseInt(id) IN
    IF parsed.nan
      THEN [valid |-> FALSE, error |-> "Movie ID must be a valid number"]
    ELSE IF parsed.n <= 0
      THEN [valid |-> FALSE, error |-> "Movie ID must be a positive number"]
    ELSE IF parsed.n > MaxMovieId
      THEN [valid |-> FALSE, error |-> "Movie ID exceeds maximum value"]
    ELSE [valid |-> TRUE, error |-> ""]

\* validateMovieId
validateMovieId(id) ==
  IF id = Null \/ id = <<>>
    THEN [valid |-> FALSE, error |-> "Movie ID is required"]
  ELSE LET parsed == parseInt(id) IN
    IF parsed.nan
      THEN [valid |-> FALSE, error |-> "Movie ID must be a valid number"]
    ELSE IF parsed.n <= 0
      THEN [valid |-> FALSE, error |-> "Movie ID must be a positive number"]
    ELSE IF parsed.n > MaxMovieId
      THEN [valid |-> FALSE, error |-> "Movie ID exceeds maximum value"]
    ELSE IF id # toString(parsed.n)
      THEN [valid |-> FALSE, error |-> "Movie ID must be an integer"]
    ELSE [valid |-> TRUE, error |-> ""]

\* String.prototype.trim
RECURSIVE trimEnd(_)
trimEnd(s) ==
  IF s # <<>> /\ s[Len(s)] \in WhiteSpace
    THEN trimEnd(SubSeq(s, 1, Len(s) - 1)) ELSE s

trim(s) == trimEnd(SkipWhiteSpace(s))

\* all strings over the characters cs of length n, and of length up to n
RECURSIVE StringsOfLen(_, _)
StringsOfLen(cs, n) ==
  IF n = 0 THEN {<<>>}
  ELSE {<<c>> \o t : c \in cs, t \in StringsOfLen(cs, n - 1)}

StringsUpTo(cs, n) == UNION {StringsOfLen(cs, k) : k \in 0..n}

\* the ids validateMovieId is called with: every short string over IdChars,
\* the missing parameter, and ids around the maximum
MaxIdLen == 3
IdChars == {"0", "1", "7", "-", "+", " ", ".", "a"}

MovieIdInputs ==
  StringsUpTo(IdChars, MaxIdLen)
    \cup { Null, toString(MaxMovieId), toString(MaxMovieId + 1),
           <<" ">> \o toString(MaxMovieId), toString(MaxMovieId) \o <<" ">>,
           <<"0">> \o toString(MaxMovieId) }

\* no function has been called on its own
NotCalled == [none |-> TRUE]

\* validateMovieId(arg) called on its own
CallValidateMovieId ==
  /\ result = NotCalled
  /\ result' = validateMovieId(arg)
  /\ UNCHANGED <<now, rlVars, enrichVars, cacheOpVars, arg, healthVars>>

\* A search query is a sequence of character codes.  NullQuery is
\* searchParams' null for a missing parameter.
NullQuery == <<-1>>

\* the ASCII characters String.prototype.trim removes: TAB, LF, VT, FF, CR, SP
WhiteSpaceCodes == {9, 10, 11, 12, 13, 32}

RECURSIVE trimStartCodes(_)
trimStartCodes(q) ==
  IF q # <<>> /\ Head(q) \in WhiteSpaceCodes THEN trimStartCodes(Tail(q)) ELSE q

RECURSIVE trimEndCodes(_)
trimEndCodes(q) ==
  IF q # <<>> /\ q[Len(q)] \in WhiteSpaceCodes
    THEN trimEndCodes(SubSeq(q, 1, Len(q) - 1)) ELSE q

trimCodes(q) == trimEndCodes(trimStartCodes(q))

\* the class /[\x00-\x08\x0B-\x0C\x0E-\x1F]/
RejectedCodes == (0..8) \cup (11..12) \cup (14..31)

MaxQueryLength == 200

\* validateSearchQuery
validateSearchQuery(query) ==
  IF query = NullQuery \/ query = <<>>
    THEN [valid |-> FALSE, error |-> "Query parameter is required"]
  ELSE LET trimmed == trimCodes(query) IN
    IF Len(trimmed) = 0
      THEN [valid |-> FALSE, error |-> "Query cannot be empty"]
    ELSE IF Len(trimmed) > MaxQueryLength
      THEN [valid |-> FALSE, error |-> "Query cannot exceed 200 characters"]
    ELSE IF \E i \in 1..Len(trimmed) : trimmed[i] \in RejectedCodes
      THEN [valid |-> FALSE,
            error |-> "Query contains invalid control characters"]
    ELSE [valid |-> TRUE, error |-> ""]

\* the queries validateSearchQuery is called with: every short string over
\* QueryCodes, the missing parameter, and queries around the maximum length
MaxQueryInputLen == 3
QueryCodes == {0, 9, 10, 11, 13, 31, 32, 97}

Repeat(c, n) == [i \in 1..n |-> c]

QueryInputs ==
  StringsUpTo(QueryCodes, MaxQueryInputLen)
    \cup { NullQuery,
           Repeat(97, MaxQueryLength), Repeat(97, MaxQueryLength + 1),
           <<32>> \o Repeat(97, MaxQueryLength) \o <<32>>,
           Repeat(97, MaxQueryLength - 1) \o <<9>> }

\* validateSearchQuery(arg) called on its own
CallValidateSearchQuery ==
  /\ result = NotCalled
  /\ result' = validateSearchQuery(arg)
  /\ UNCHANGED <<now, rlVars, enrichVars, cacheOpVars, arg, healthVars>>

\* ------------------------------------------------------------------------
\* Values
\* ------------------------------------------------------------------------
NullVal == [null |-> TRUE]
Undefined == [undefined |-> TRUE]

\* absent number (undefined) and NaN; ratings are integers:
\* rating.imdb in tenths, rating.rottenTomatoes in percent,
\* rating.combined in twentieths
Absent == -1
NaN == -2

\* a settled or pending promise of a client call
NotStarted == [st |-> "none", val |-> Undefined]
Pending == [st |-> "inflight", val |-> Undefined]
Fulfilled(v) == [st |-> "fulfilled", val |-> v]
Rejected == [st |-> "rejected", val |-> Undefined]

\* what the upstreams may answer with
TheMovie == <<"7">>
ImdbIds == {"tt7"}

CatalogBodies ==
  [id : {7}, title : {"Inception"}, imdb_id : ImdbIds \cup {""}]

NetflixOption ==
  [service |-> [id |-> "netflix", name |-> "Netflix"],
   type |-> "subscription", link |-> "https://nflx/7"]

StreamingBodies ==
  { [hasOptions |-> FALSE, us |-> <<>>],
    [hasOptions |-> TRUE, us |-> <<>>],
    [hasOptions |-> TRUE, us |-> <<NetflixOption>>] }

OMDbBodies ==
  { [Title |-> "Inception", imdbRating |-> <<"8", ".", "8">>,
     Ratings |-> << [Source |-> "Internet Movie Database",
                     Value |-> <<"8", ".", "8", "/", "1", "0">>],
                    [Source |-> "Rotten Tomatoes",
                     Value |-> <<"8", "7", "%">>] >>],
    [Title |-> "Inception", imdbRating |-> <<"N", "/", "A">>,
     Ratings |-> <<>>] }

\* a 200 reply of the ratings upstream that is JSON, is not Response
\* 'False', and carries no Ratings array
UntypedOMDbBodies ==
  { [Title |-> "Inception", imdbRating |-> <<"8", ".", "8">>] }

Outcomes(api) ==
  IF api = "omdb"
    THEN {"ok", "no_data", "http_error", "network_error", "malformed"}
    ELSE {"ok", "http_error", "network_error", "malformed"}

Bodies(api) ==
  CASE api = "tmdb" -> CatalogBodies
    [] api = "streaming" -> StreamingBodies
    [] api = "omdb" -> OMDbBodies

\* ------------------------------------------------------------------------
\* SimpleCache
\* ------------------------------------------------------------------------
\* 5 * 60 * 1000 ms in the program, scaled to clock units
CacheTTL == 1

\* cacheKey of getMovieDetails, getStreamingAvailability, getOMDbRatings
tmdbKey(movieId) == "tmdb:movie:" \o StrOf(toString(movieId))
streamingKey(tmdbId) == "streaming:" \o StrOf(toString(tmdbId))
omdbKey(imdbId) == "omdb:" \o imdbId

cacheGet_NoExpiry(c, key) ==
  IF key \notin DOMAIN c THEN [val |-> NullVal, cache |-> c]
  ELSE [val |-> c[key].data, cache |-> c]

cacheGet_Touch(c, key) ==
  IF key \notin DOMAIN c THEN [val |-> NullVal, cache |-> c]
  ELSE IF now - c[key].timestamp > CacheTTL
    THEN [val |-> NullVal,
          cache |-> [k \in DOMAIN c \ {key} |-> c[k]]]
  ELSE [val |-> c[key].data,
        cache |-> [c EXCEPT ![key].timestamp = now]]

\* SimpleCache.get: the value returned and the map it leaves
cacheGet(c, key) ==
  IF key \notin DOMAIN c THEN [val |-> NullVal, cache |-> c]
  ELSE IF now - c[key].timestamp > CacheTTL
    THEN [val |-> NullVal,
          cache |-> [k \in DOMAIN c \ {key} |-> c[k]]]
  ELSE [val |-> c[key].data, cache |-> c]

cacheSet_NoStamp(c, key, data) ==
  [k \in DOMAIN c \cup {key} |->
     IF k = key
       THEN [data |-> data,
             timestamp |-> IF key \in DOMAIN c THEN c[key].timestamp ELSE now]
       ELSE c[k]]

cacheSet_FirstWins(c, key, data) ==
  [k \in DOMAIN c \cup {key} |->
     IF k \in DOMAIN c THEN c[k] ELSE [data |-> data, timestamp |-> now]]

\* SimpleCache.set
cacheSet(c, key, data) ==
  [k \in DOMAIN c \cup {key} |->
     IF k = key THEN [data |-> data, timestamp |-> now] ELSE c[k]]

\* the cache used directly: keys, values and the clock bound of SpecCache
MaxCacheTime == 3
CacheKeys == {"k1", "k2"}
CacheValues == {[v |-> 1], [v |-> 2]}

NoGet == [key |-> "", val |-> NullVal, at |-> 0]

\* cache.set(k, v)
CacheSet(k, v) ==
  /\ cache' = cacheSet(cache, k, v)
  /\ written' = [kk \in DOMAIN written \cup {k} |->
                   IF kk = k THEN [data |-> v, at |-> now] ELSE written[kk]]
  /\ lastGet' = NoGet
  /\ UNCHANGED <<now, rlVars, keyConfigured, req, netCalls, received,
               callVars, healthVars>>

\* cache.get(k)
CacheGet(k) ==
  LET g == cacheGet(cache, k) IN
  /\ cache' = g.cache
  /\ lastGet' = [key |-> k, val |-> g.val, at |-> now]
  /\ UNCHANGED <<now, rlVars, keyConfigured, req, netCalls, received, written,
               callVars, healthVars>>

\* ------------------------------------------------------------------------
\* Upstream clients
\* ------------------------------------------------------------------------
\* getStreamingAvailability: `option.service.name`, type, link of each entry
normaliseStreaming(body) ==
  [options |-> IF body.hasOptions
     THEN [i \in 1..Len(body.us) |->
             [service |-> body.us[i].service.name,
              type |-> body.us[i].type,
              link |-> body.us[i].link]]
     ELSE <<>>]

streamingOnFailure_Null == NullVal

\* getStreamingAvailability: `return []` on !response.ok and in catch
streamingOnFailure == [options |-> <<>>]

\* getOMDbRatings: `return null` on !response.ok, Response 'False', catch
omdbOnFailure == NullVal

\* what a client call returns without fetching when its API_KEY is unset
unconfiguredResult(api) ==
  IF api = "streaming" THEN [options |-> <<>>] ELSE NullVal

clientStart_NoKeyCheck(c, api, key) ==
  IF cacheGet(c, key).val # NullVal
    THEN [cache |-> cacheGet(c, key).cache,
          promise |-> Fulfilled(cacheGet(c, key).val),
          issued |-> FALSE, how |-> "hit"]
    ELSE [cache |-> cacheGet(c, key).cache, promise |-> Pending,
          issued |-> TRUE, how |-> "inflight"]

clientStart_NoHit(c, api, key) ==
  [cache |-> cacheGet(c, key).cache, promise |-> Pending,
   issued |-> TRUE, how |-> "inflight"]

\* the synchronous head of a client call, up to its first await:
\* API_KEY check (omdb, streaming), cache.get, then fetch() on a miss
clientStart(c, api, key) ==
  IF api # "tmdb" /\ ~keyConfigured[api]
    THEN [cache |-> c, promise |-> Fulfilled(unconfiguredResult(api)),
          issued |-> FALSE, how |-> "nokey"]
  ELSE LET g == cacheGet(c, key) IN
    IF g.val # NullVal
      THEN [cache |-> g.cache, promise |-> Fulfilled(g.val),
            issued |-> FALSE, how |-> "hit"]
      ELSE [cache |-> g.cache, promise |-> Pending,
            issued |-> TRUE, how |-> "inflight"]

clientSettle_Rethrow(api, outcome, body) ==
  IF outcome # "ok"
    THEN [promise |-> Rejected, store |-> FALSE, data |-> Undefined]
  ELSE IF api = "streaming"
    THEN [promise |-> Fulfilled(normaliseStreaming(body)),
          store |-> TRUE, data |-> normaliseStreaming(body)]
  ELSE [promise |-> Fulfilled(body), store |-> TRUE, data |-> body]

clientSettle_CacheFailure(api, outcome, body) ==
  CASE api = "tmdb" ->
         IF outcome = "ok"
           THEN [promise |-> Fulfilled(body), store |-> TRUE, data |-> body]
           ELSE [promise |-> Rejected, store |-> FALSE, data |-> Undefined]
    [] api = "streaming" ->
         IF outcome = "ok"
           THEN [promise |-> Fulfilled(normaliseStreaming(body)),
                 store |-> TRUE, data |-> normaliseStreaming(body)]
           ELSE [promise |-> Fulfilled(streamingOnFailure),
                 store |-> TRUE, data |-> streamingOnFailure]
    [] api = "omdb" ->
         IF outcome = "ok"
           THEN [promise |-> Fulfilled(body), store |-> TRUE, data |-> body]
           ELSE [promise |-> Fulfilled(omdbOnFailure),
                 store |-> TRUE, data |-> omdbOnFailure]

clientSettle_Retry(api, outcome, body) ==
  IF outcome # "ok"
    THEN [promise |-> Pending, store |-> FALSE, data |-> Undefined]
  ELSE IF api = "streaming"
    THEN [promise |-> Fulfilled(normaliseStreaming(body)),
          store |-> TRUE, data |-> normaliseStreaming(body)]
  ELSE [promise |-> Fulfilled(body), store |-> TRUE, data |-> body]

\* the rest of a client call once fetch() settles with `outcome`:
\* the promise it returns and whether it stores `data` in the cache
clientSettle(api, outcome, body) ==
  CASE api = "tmdb" ->
         IF outcome = "ok"
           THEN [promise |-> Fulfilled(body), store |-> TRUE, data |-> body]
           ELSE [promise |-> Rejected, store |-> FALSE, data |-> Undefined]
    [] api = "streaming" ->
         IF outcome = "ok"
           THEN [promise |-> Fulfilled(normaliseStreaming(body)),
                 store |-> TRUE, data |-> normaliseStreaming(body)]
           ELSE [promise |-> Fulfilled(streamingOnFailure),
                 store |-> FALSE, data |-> Undefined]
    [] api = "omdb" ->
         IF outcome = "ok"
           THEN [promise |-> Fulfilled(body), store |-> TRUE, data |-> body]
           ELSE [promise |-> Fulfilled(omdbOnFailure),
                 store |-> FALSE, data |-> Undefined]

\* ------------------------------------------------------------------------
\* Rating parsing
\* ------------------------------------------------------------------------
\* parseFloat of a rating string, in tenths (one fraction digit is kept)
parseFloat(s) ==
  LET t    == SkipWhiteSpace(s)
      ds   == DigitPrefix(t)
      rest == SubSeq(t, Len(ds) + 1, Len(t))
      frac == IF rest # <<>> /\ Head(rest) = "." THEN DigitPrefix(Tail(rest))
              ELSE <<>>
  IN IF ds = <<>> THEN NaN
     ELSE 10 * DigitsValue(ds, 0)
          + (IF frac = <<>> THEN 0 ELSE DigitVal(Head(frac)))

\* Value.match(/(\d+)%/): the first run of digits that a % follows
RECURSIVE matchPercent(_)
matchPercent(s) ==
  IF s = <<>> THEN Absent
  ELSE IF Head(s) \in Digits
    THEN LET ds   == DigitPrefix(s)
             rest == SubSeq(s, Len(ds) + 1, Len(s))
         IN IF rest # <<>> /\ Head(rest) = "%" THEN DigitsValue(ds, 0)
            ELSE matchPercent(rest)
  ELSE matchPercent(Tail(s))

\* parseRottenTomatoesScore
parseRottenTomatoesScore(ratings) ==
  LET idx == {i \in 1..Len(ratings) : ratings[i].Source = "Rotten Tomatoes"}
  IN IF idx = {} THEN Absent
     ELSE LET first == CHOOSE i \in idx : \A j \in idx : i <= j
          IN matchPercent(ratings[first].Value)

\* JavaScript truthiness of a number or undefined
truthy(x) == x # Absent /\ x # NaN /\ x # 0

imdbRatingOf_Zero(omdbData) ==
  IF omdbData # NullVal /\ omdbData.imdbRating # <<>>
    THEN parseFloat(omdbData.imdbRating) ELSE 0

\* route: omdbData?.imdbRating ? parseFloat(omdbData.imdbRating) : undefined
imdbRatingOf(omdbData) ==
  IF omdbData # NullVal /\ omdbData.imdbRating # <<>>
    THEN parseFloat(omdbData.imdbRating) ELSE Absent

\* route: omdbData ? parseRottenTomatoesScore(omdbData.Ratings) : undefined
rtRatingOf(omdbData) ==
  IF omdbData # NullVal THEN parseRottenTomatoesScore(omdbData.Ratings)
  ELSE Absent

\* route: combinedRating, in twentieths
combinedRating(imdbRating, rtRating) ==
  IF truthy(imdbRating) /\ truthy(rtRating) THEN imdbRating + rtRating
  ELSE IF truthy(imdbRating) THEN 2 * imdbRating
  ELSE IF truthy(rtRating) THEN 2 * rtRating
  ELSE Absent

\* route: the rating sub-object of enrichedMovie
ratingOf(omdbData) ==
  [imdb |-> imdbRatingOf(omdbData),
   rottenTomatoes |-> rtRatingOf(omdbData),
   combined |-> combinedRating(imdbRatingOf(omdbData), rtRatingOf(omdbData))]

\* the ratings bodies the aggregation is called with
ImdbRatingStrings ==
  { <<"0", ".", "0">>, <<"1", ".", "5">>, <<"6", ".", "0">>, <<"7">>,
    <<"8", ".", "8">>, <<"1", "0", ".", "0">>, <<"N", "/", "A">>, <<>> }

RottenTomatoesStrings ==
  { <<"0", "%">>, <<"5", "%">>, <<"6", "0", "%">>, <<"8", "7", "%">>,
    <<"1", "0", "0", "%">>, <<"N", "/", "A">> }

RatingLists ==
  { <<>> } \cup
  { << [Source |-> "Internet Movie Database",
        Value |-> <<"8", ".", "8", "/", "1", "0">>],
       [Source |-> "Rotten Tomatoes", Value |-> v] >> :
    v \in RottenTomatoesStrings }

RatingInputs ==
  { NullVal } \cup
  [Title : {"Inception"}, imdbRating : ImdbRatingStrings, Ratings : RatingLists]

\* the rating aggregation of the route, run on the ratings body `arg`
CallAggregateRatings ==
  /\ result = NotCalled
  /\ result' = ratingOf(arg)
  /\ UNCHANGED <<now, rlVars, enrichVars, cacheOpVars, arg, healthVars>>

\* ------------------------------------------------------------------------
\* Trailer selection
\* ------------------------------------------------------------------------
\* tmdbData.videos: undefined (defined = FALSE), or an object whose results
\* hold up to MaxVideos entries
MaxVideos == 2

VideoEntries ==
  [type : {"Trailer", "Teaser"}, site : {"YouTube", "Vimeo"},
   official : BOOLEAN]

VideoInputs ==
  { [defined |-> FALSE, results |-> <<>>] } \cup
  { [defined |-> TRUE, results |-> vs] :
      vs \in UNION { [1..n -> VideoEntries] : n \in 0..MaxVideos } }

\* Array.prototype.find, given the positions `hits` of the entries that
\* satisfy the predicate: the first of them, 0 when there is none
find(hits) ==
  IF hits = {} THEN 0 ELSE CHOOSE i \in hits : \A j \in hits : i <= j

isOfficialTrailer(v) ==
  v.type = "Trailer" /\ v.site = "YouTube" /\ v.official

isTrailer(v) == v.type = "Trailer" /\ v.site = "YouTube"

selectTrailer_AnyTrailer(videos) ==
  IF ~videos.defined THEN 0
  ELSE find({i \in 1..Len(videos.results) : isTrailer(videos.results[i])})

\* route: the trailer, as its position in videos.results (0: undefined)
selectTrailer(videos) ==
  LET vs       == videos.results
      official == {i \in 1..Len(vs) : isOfficialTrailer(vs[i])}
      trailers == {i \in 1..Len(vs) : isTrailer(vs[i])}
  IN
  IF ~videos.defined THEN 0
  ELSE IF find(official) # 0 THEN find(official)
  ELSE find(trailers)

\* the trailer selection of the route, run on the video list `arg`
CallSelectTrailer ==
  /\ result = NotCalled
  /\ result' = [index |-> selectTrailer(arg)]
  /\ UNCHANGED <<now, rlVars, enrichVars, cacheOpVars, arg, healthVars>>

\* ------------------------------------------------------------------------
\* GET /api/enrich
\* ------------------------------------------------------------------------
MaxRequests == 3
MaxAppTime == 2

\* request slots: a slot serves one request at a time
Reqs == {1, 2}

\* the values of the `id` query parameter the requests carry
EnrichInputs ==
  { Null, <<>>, TheMovie, <<"0">>, <<"-", "7">>, <<"a", "b">>,
    <<"7", ".", "5">>, <<" ", "7">>, <<"0", "7">>,
    <<"1", "0", "0", "0", "0", "0", "0", "1">> }

NoMovie == [none |-> TRUE]

IdleReq ==
  [pc |-> "idle", movieId |-> 0,
   tmdb |-> NotStarted, streaming |-> NotStarted, omdb |-> NotStarted,
   how |-> [tmdb |-> "none", streaming |-> "none", omdb |-> "none"],
   resp |-> [status |-> 0, error |-> "", movie |-> NoMovie]]

invalidResponse_Generic(error) ==
  [status |-> 500, error |-> "Failed to enrich movie data", movie |-> NoMovie]

\* route: the 400 response of a failed validation
invalidResponse(error) == [status |-> 400, error |-> error, movie |-> NoMovie]

tmdbFailedResponse_NoStatus ==
  [status |-> 200, error |-> "Failed to fetch movie details from TMDB",
   movie |-> NoMovie]

\* route: the response when results[0] is rejected
tmdbFailedResponse ==
  [status |-> 500, error |-> "Failed to fetch movie details from TMDB",
   movie |-> NoMovie]

\* route: the response of the outer catch
enrichFailedResponse ==
  [status |-> 500, error |-> "Failed to enrich movie data", movie |-> NoMovie]

\* route: enrichedMovie and the 200 response carrying it
successResponse(tmdbData, streamingOptions, omdbData) ==
  [status |-> 200, error |-> "",
   movie |-> [id |-> tmdbData.id,
              title |-> tmdbData.title,
              rating |-> [imdb |-> imdbRatingOf(omdbData),
                          rottenTomatoes |-> rtRatingOf(omdbData),
                          combined |-> combinedRating(imdbRatingOf(omdbData),
                                                      rtRatingOf(omdbData))],
              streamingOptions |-> streamingOptions.options]]

\* route: parseRottenTomatoesScore(omdbData.Ratings) throws on a body
\* without Ratings (`ratings.find` of undefined)
ratingsThrow(omdbData) ==
  omdbData # NullVal /\ "Ratings" \notin DOMAIN omdbData

\* route: the response built after the ratings call; a throw lands in the
\* outer catch
buildResponse(tmdbData, streamingOptions, omdbData) ==
  IF ratingsThrow(omdbData) THEN enrichFailedResponse
  ELSE successResponse(tmdbData, streamingOptions, omdbData)

\* route: streamingOptions, from results[1]
streamingOptionsOf(p) ==
  IF p.st = "fulfilled" THEN p.val ELSE [options |-> <<>>]

hasCrossRef_Always(tmdbData) == TRUE

\* route: if (tmdbData.imdb_id)
hasCrossRef(tmdbData) == tmdbData.imdb_id # ""

bump_Twice(f, api, yes) == IF yes THEN [f EXCEPT ![api] = @ + 2] ELSE f

\* the count of fetch() calls after a client call that issued one or none
bump(f, api, yes) == IF yes THEN [f EXCEPT ![api] = @ + 1] ELSE f

\* GET, from the request's arrival to its first await: validation, then the
\* synchronous heads of getMovieDetails and getStreamingAvailability
Receive(r, input) ==
  LET v  == validateMovieId(input)
      id == parseInt(input).n
      s1 == clientStart(cache, "tmdb", tmdbKey(id))
      s2 == clientStart(s1.cache, "streaming", streamingKey(id))
  IN
  /\ req[r].pc = "idle"
  /\ received < MaxRequests
  /\ received' = received + 1
  /\ IF ~v.valid
       THEN /\ req' = [req EXCEPT ![r].pc = "done",
                                  ![r].resp = invalidResponse(v.error)]
            /\ UNCHANGED <<cache, netCalls>>
       ELSE /\ req' = [req EXCEPT ![r].pc = "fetching",
                                  ![r].movieId = id,
                                  ![r].tmdb = s1.promise,
                                  ![r].streaming = s2.promise,
                                  ![r].how.tmdb = s1.how,
                                  ![r].how.streaming = s2.how]
            /\ cache' = s2.cache
            /\ netCalls' = bump(bump(netCalls, "tmdb", s1.issued),
                                "streaming", s2.issued)
  /\ UNCHANGED <<now, rlVars, keyConfigured,
               otherVars>>

\* the cache key of the client call `api` of request r
keyOf(r, api) ==
  CASE api = "tmdb" -> tmdbKey(req[r].movieId)
    [] api = "streaming" -> streamingKey(req[r].movieId)
    [] api = "omdb" -> omdbKey(req[r].tmdb.val.imdb_id)

\* fetch() of a client call settles; the client call runs to its return
Response(r, api, outcome, body) ==
  LET s == clientSettle(api, outcome, body) IN
  /\ req[r][api].st = "inflight"
  /\ req' = [req EXCEPT ![r][api] = s.promise, ![r].how[api] = outcome]
  /\ cache' = IF s.store THEN cacheSet(cache, keyOf(r, api), s.data) ELSE cache
  /\ UNCHANGED <<now, rlVars, keyConfigured, netCalls, received,
               otherVars>>

allSettled_CriticalOnly(ps) == ps[1].st \in {"fulfilled", "rejected"}

\* Promise.allSettled(ps) has resolved: every promise of ps is settled
allSettled(ps) ==
  \A i \in 1..Len(ps) : ps[i].st \in {"fulfilled", "rejected"}

\* GET resumes after `await Promise.allSettled([...])`
Continue(r) ==
  LET tmdbResult       == req[r].tmdb
      tmdbData         == tmdbResult.val
      streamingOptions == streamingOptionsOf(req[r].streaming)
  IN
  /\ req[r].pc = "fetching"
  /\ allSettled(<<req[r].tmdb, req[r].streaming>>)
  /\ IF tmdbResult.st = "rejected"
       THEN /\ req' = [req EXCEPT ![r].pc = "done",
                                  ![r].resp = tmdbFailedResponse]
            /\ UNCHANGED <<cache, netCalls>>
     ELSE IF streamingOptions = NullVal \* streamingOptions.length throws
       THEN /\ req' = [req EXCEPT ![r].pc = "done",
                                  ![r].resp = enrichFailedResponse]
            /\ UNCHANGED <<cache, netCalls>>
     ELSE IF hasCrossRef(tmdbData)
       THEN LET s == clientStart(cache, "omdb", omdbKey(tmdbData.imdb_id)) IN
            /\ req' = [req EXCEPT ![r].pc = "ratings",
                                  ![r].omdb = s.promise,
                                  ![r].how.omdb = s.how]
            /\ cache' = s.cache
            /\ netCalls' = bump(netCalls, "omdb", s.issued)
     ELSE /\ req' = [req EXCEPT ![r].pc = "done",
                                ![r].how.omdb = "skipped",
                                ![r].resp = successResponse(tmdbData,
                                              streamingOptions, NullVal)]
          /\ UNCHANGED <<cache, netCalls>>
  /\ UNCHANGED <<now, rlVars, keyConfigured, received,
               otherVars>>

\* GET resumes after `await getOMDbRatings(...)` and builds the response
Finish(r) ==
  LET omdbData == IF req[r].omdb.st = "fulfilled" THEN req[r].omdb.val
                  ELSE NullVal
  IN
  /\ req[r].pc = "ratings"
  /\ req[r].omdb.st \in {"fulfilled", "rejected"}
  /\ req' = [req EXCEPT ![r].pc = "done",
                        ![r].resp = buildResponse(req[r].tmdb.val,
                                      streamingOptionsOf(req[r].streaming),
                                      omdbData)]
  /\ UNCHANGED <<now, rlVars, keyConfigured, cache, netCalls, received,
               otherVars>>

\* the response has been sent; the slot takes the next request
Reset(r) ==
  /\ req[r].pc = "done"
  /\ req' = [req EXCEPT ![r] = IdleReq]
  /\ UNCHANGED <<now, rlVars, keyConfigured, cache, netCalls, received,
               otherVars>>

\* no direct cache operation yet
InitOther ==
  /\ lastGet = NoGet
  /\ written = <<>>

\* no function is called on its own
InitNoCall ==
  /\ arg = Null
  /\ result = NotCalled

InitApp ==
  /\ cache = <<>>
  /\ req = [r \in Reqs |-> IdleReq]
  /\ netCalls = [a \in APIs |-> 0]
  /\ received = 0

\* ------------------------------------------------------------------------
\* Outbound requests
\* ------------------------------------------------------------------------
\* the value of process.env.TMDB_API_KEY, OMDB_API_KEY, STREAMING_API_KEY
ApiKey(api) ==
  CASE api = "tmdb" -> "<TMDB_API_KEY>"
    [] api = "omdb" -> "<OMDB_API_KEY>"
    [] api = "streaming" -> "<STREAMING_API_KEY>"

TMDB_BASE_URL == "https://api.themoviedb.org/3"
OMDB_BASE_URL == "http://www.omdbapi.com/"
STREAMING_BASE_URL == "https://streaming-availability.p.rapidapi.com"

\* the operations that send a request, and what they are called with
MaxUrlId == 16
UrlQueries == { <<"a">>, <<"a", " ", "b">>, <<"a", "&", "k", "=", "b">> }

\* encodeURIComponent, on the characters of UrlQueries
RECURSIVE encodeURIComponent(_)
encodeURIComponent(q) ==
  IF q = <<>> THEN ""
  ELSE (CASE Head(q) = " " -> "%20"
          [] Head(q) = "&" -> "%26"
          [] Head(q) = "=" -> "%3D"
          [] OTHER -> Head(q)) \o encodeURIComponent(Tail(q))

RequestInputs ==
  [op : {"getMovieDetails", "getStreamingAvailability"},
   x : {StrOf(toString(n)) : n \in 1..MaxUrlId}]
    \cup [op : {"getOMDbRatings"},
          x : {"tt" \o StrOf(toString(n)) : n \in 1..MaxUrlId}]
    \cup [op : {"searchMovies"}, x : UrlQueries]
    \cup [op : {"checkTMDBHealth", "checkOMDbHealth", "checkStreamingHealth"},
          x : {""}]

\* the upstream an operation talks to
upstreamOf(op) ==
  CASE op \in {"searchMovies", "getMovieDetails", "checkTMDBHealth"} -> "tmdb"
    [] op \in {"getOMDbRatings", "checkOMDbHealth"} -> "omdb"
    [] op \in {"getStreamingAvailability", "checkStreamingHealth"}
         -> "streaming"

\* the url template literal of each operation, as the sequence of its
\* literal and interpolated parts, and the headers handed to fetch()
buildRequest(op, x) ==
  CASE op = "searchMovies" ->
         [url |-> <<TMDB_BASE_URL, "/search/movie?api_key=", ApiKey("tmdb"),
                    "&query=", encodeURIComponent(x)>>,
          headers |-> {<<"Content-Type", "application/json">>}]
    [] op = "getMovieDetails" ->
         [url |-> <<TMDB_BASE_URL, "/movie/", x, "?api_key=", ApiKey("tmdb"),
                    "&append_to_response=videos">>,
          headers |-> {<<"Content-Type", "application/json">>}]
    [] op = "getOMDbRatings" ->
         [url |-> <<OMDB_BASE_URL, "?apikey=", ApiKey("omdb"), "&i=", x>>,
          headers |-> {}]
    [] op = "getStreamingAvailability" ->
         [url |-> <<STREAMING_BASE_URL, "/get?tmdb_id=movie/", x,
                    "&country=us&output_language=en">>,
          headers |-> {<<"X-RapidAPI-Key", ApiKey("streaming")>>,
                       <<"X-RapidAPI-Host",
                         "streaming-availability.p.rapidapi.com">>}]
    [] op = "checkTMDBHealth" ->
         [url |-> <<"https://api.themoviedb.org/3/configuration?api_key=",
                    ApiKey("tmdb")>>,
          headers |-> {<<"Content-Type", "application/json">>}]
    [] op = "checkOMDbHealth" ->
         [url |-> <<"http://www.omdbapi.com/?apikey=", ApiKey("omdb"),
                    "&i=tt0133093&plot=short">>,
          headers |-> {}]
    [] op = "checkStreamingHealth" ->
         [url |-> <<STREAMING_BASE_URL,
                    "/get?tmdb_id=movie/603&country=us&output_language=en">>,
          headers |-> {<<"X-RapidAPI-Key", ApiKey("streaming")>>,
                       <<"X-RapidAPI-Host",
                         "streaming-availability.p.rapidapi.com">>}]

\* the request of the operation `arg` is built and handed to fetch()
CallBuildRequest ==
  /\ result = NotCalled
  /\ result' = buildRequest(arg.op, arg.x)
  /\ UNCHANGED <<now, rlVars, enrichVars, cacheOpVars, arg, healthVars>>

\* ------------------------------------------------------------------------
\* GET /api/health
\* ------------------------------------------------------------------------
\* HEALTH_CHECK_CACHE_TTL (60000 ms) and HEALTH_CHECK_TIMEOUT (5000 ms),
\* scaled to clock units
HealthCheckCacheTTL == 2
HealthCheckTimeout == 1
MaxHealthRequests == 3
MaxHealthTime == 3

\* request slots of the health route
HReqs == {1, 2}

\* DependencyStatus; latency is Absent when the field is left out
Up(latency) == [status |-> "up", latency |-> latency]
Down == [status |-> "down", latency |-> Absent]
PendingProbe == [status |-> "pending", latency |-> Absent]

NoHealth == [none |-> TRUE]

IdleHReq ==
  [pc |-> "idle", startedAt |-> 0, fromCache |-> FALSE,
   probes |-> [a \in APIs |-> PendingProbe],
   outcome |-> [a \in APIs |-> "none"],   \* history: how each check ended
   resp |-> [code |-> 0, data |-> NoHealth]]

\* what a probe's fetch may settle with
ProbeOutcomes(api) ==
  CASE api = "tmdb" -> {"2xx", "5xx", "network_error"}
    [] api = "omdb" -> {"2xx", "2xx_false", "2xx_malformed", "5xx",
                        "network_error"}
    [] api = "streaming" -> {"2xx", "404", "403", "5xx", "network_error"}

apiKeySet(api) ==
  IF api = "tmdb" THEN tmdbKeyConfigured ELSE keyConfigured[api]

classify_StatusOnly(api, outcome, latency) ==
  CASE outcome \in {"2xx", "2xx_false", "2xx_malformed"} -> Up(latency)
    [] outcome \in {"404", "403"} ->
         IF api = "streaming" THEN Up(latency) ELSE Down
    [] OTHER -> Down

\* checkTMDBHealth, checkOMDbHealth, checkStreamingHealth: the
\* DependencyStatus returned once fetch has settled with `outcome`
\* ("2xx_false": a 2xx reply whose body has Response 'False';
\* "2xx_malformed": a 2xx reply whose body is not JSON)
classify(api, outcome, latency) ==
  CASE outcome = "2xx" -> Up(latency)
    [] outcome \in {"404", "403"} ->
         IF api = "streaming" THEN Up(latency) ELSE Down
    [] OTHER -> Down

\* performHealthChecks: the overall status
aggregateStatus(deps) ==
  IF deps["tmdb"].status = "down" THEN "unhealthy"
  ELSE IF deps["omdb"].status = "down" \/ deps["streaming"].status = "down"
    THEN "degraded"
  ELSE "healthy"

statusCodeOf_Always200(data) == 200

\* GET: the HTTP status of a response carrying `data`, cached or fresh
statusCodeOf(data) == IF data.status = "unhealthy" THEN 503 ELSE 200

cacheValid_Inclusive ==
  /\ cachedHealthCheck # NullVal
  /\ now - cachedHealthCheck.timestamp <= HealthCheckCacheTTL

\* GET: the cached result is served
cacheValid ==
  /\ cachedHealthCheck # NullVal
  /\ now - cachedHealthCheck.timestamp < HealthCheckCacheTTL

\* GET, from the request's arrival to its first await: the cached result,
\* or the synchronous heads of the three checks
HealthReceive(h) ==
  /\ hreq[h].pc = "idle"
  /\ healthReceived < MaxHealthRequests
  /\ healthReceived' = healthReceived + 1
  /\ IF cacheValid
       THEN hreq' = [hreq EXCEPT
              ![h].pc = "done",
              ![h].startedAt = now,
              ![h].fromCache = TRUE,
              ![h].resp = [code |-> statusCodeOf(cachedHealthCheck.data),
                           data |-> cachedHealthCheck.data]]
       ELSE hreq' = [hreq EXCEPT
              ![h].pc = "probing",
              ![h].startedAt = now,
              ![h].probes = [a \in APIs |->
                  IF apiKeySet(a) THEN PendingProbe ELSE Down],
              ![h].outcome = [a \in APIs |->
                  IF apiKeySet(a) THEN "none" ELSE "nokey"]]
  /\ UNCHANGED <<now, rlVars, enrichVars, cacheOpVars, callVars,
                 cachedHealthCheck, tmdbKeyConfigured>>

\* the fetch of a probe settles before its timeout and the check returns
ProbeSettle(h, api, outcome) ==
  /\ hreq[h].pc = "probing"
  /\ hreq[h].probes[api] = PendingProbe
  /\ now - hreq[h].startedAt < HealthCheckTimeout
  /\ hreq' = [hreq EXCEPT ![h].probes[api] =
                              classify(api, outcome, now - hreq[h].startedAt),
                          ![h].outcome[api] = outcome]
  /\ UNCHANGED <<now, rlVars, enrichVars, cacheOpVars, callVars,
                 cachedHealthCheck, tmdbKeyConfigured, healthReceived>>

\* fetchWithTimeout: the abort timer fires, fetch rejects, the check
\* returns down from its catch
ProbeTimeout(h, api) ==
  /\ hreq[h].pc = "probing"
  /\ hreq[h].probes[api] = PendingProbe
  /\ now - hreq[h].startedAt >= HealthCheckTimeout
  /\ hreq' = [hreq EXCEPT ![h].probes[api] = Down,
                          ![h].outcome[api] = "timeout"]
  /\ UNCHANGED <<now, rlVars, enrichVars, cacheOpVars, callVars,
                 cachedHealthCheck, tmdbKeyConfigured, healthReceived>>

\* GET resumes after `await performHealthChecks()`: aggregates, caches the
\* result under the time the request arrived, and responds
HealthFinish(h) ==
  LET deps == hreq[h].probes
      healthData == [status |-> aggregateStatus(deps), dependencies |-> deps,
                     timestamp |-> now]
  IN
  /\ hreq[h].pc = "probing"
  /\ \A a \in APIs : deps[a] # PendingProbe
  /\ cachedHealthCheck' = [data |-> healthData,
                           timestamp |-> hreq[h].startedAt]
  /\ hreq' = [hreq EXCEPT ![h].pc = "done",
                          ![h].resp = [code |-> statusCodeOf(healthData),
                                       data |-> healthData]]
  /\ UNCHANGED <<now, rlVars, enrichVars, cacheOpVars, callVars,
                 tmdbKeyConfigured, healthReceived>>

\* the response has been sent; the slot takes the next request
HealthReset(h) ==
  /\ hreq[h].pc = "done"
  /\ hreq' = [hreq EXCEPT ![h] = IdleHReq]
  /\ UNCHANGED <<now, rlVars, enrichVars, cacheOpVars, callVars,
                 cachedHealthCheck, tmdbKeyConfigured, healthReceived>>

\* no probe's abort timer is overdue
noProbeOverdue ==
  \A h \in HReqs : \A a \in APIs :
    (hreq[h].pc = "probing" /\ hreq[h].probes[a] = PendingProbe)
      => now - hreq[h].startedAt < HealthCheckTimeout

\* no Health request yet
InitHealth ==
  /\ cachedHealthCheck = NullVal
  /\ hreq = [h \in HReqs |-> IdleHReq]
  /\ healthReceived = 0

\* the clock advances; a due timer callback runs before it does
Tick ==
  /\ now < MaxTime
  /\ \A a \in APIs : \A i \in 1..Len(timers[a]) :
       now < timers[a][i] + TimerLag
  /\ now' = now + 1
  /\ UNCHANGED <<rlVars, enrichVars, otherVars>>

\* every optional API_KEY is configured
Init ==
  /\ now = 0
  /\ InitRL
  /\ InitApp
  /\ InitOther
  /\ InitNoCall
  /\ InitHealth
  /\ tmdbKeyConfigured = TRUE
  /\ keyConfigured = [a \in {"omdb", "streaming"} |-> TRUE]

\* any configuration of the optional API_KEYs
InitAnyKeys ==
  /\ now = 0
  /\ InitRL
  /\ InitApp
  /\ InitOther
  /\ InitNoCall
  /\ InitHealth
  /\ tmdbKeyConfigured = TRUE
  /\ keyConfigured \in [{"omdb", "streaming"} -> BOOLEAN]

\* the limiter driven by arbitrary callers, one limiter per behaviour
NextRL ==
  \/ \E api \in APIs : Solo(api) /\ Acquire(api)
  \/ \E api \in APIs : TimerFire(api)
  \/ \E api \in APIs : Solo(api) /\ GetState(api)
  \/ Tick

SpecRL == Init /\ [][NextRL]_vars

\* two limiters of the same configuration receive the same acquire() calls
\* at the same times and run their timer callbacks as they fall due, before
\* any other call of that instant; getState() is called on the second only
Unobserved == "omdb"
Observed == "streaming"

\* both limiters have received the acquire() calls made so far
sameCalls == Len(callInfo[Unobserved]) = Len(callInfo[Observed])

noTimerDue ==
  \A api \in {Unobserved, Observed} : \A i \in 1..Len(timers[api]) :
    timers[api][i] > now

NextTwin ==
  \/ sameCalls /\ noTimerDue /\ Acquire(Unobserved)
  \/ ~sameCalls /\ Acquire(Observed)
  \/ sameCalls /\ (\E api \in {Unobserved, Observed} : TimerFire(api))
  \/ sameCalls /\ noTimerDue /\ GetState(Observed)
  \/ sameCalls /\ Tick

SpecTwin == Init /\ [][NextTwin]_vars

getRateLimiter_Shared(api) == "tmdb"

\* getRateLimiter(api): rateLimiters[api], an instance of its own per API
getRateLimiter(api) == api

\* the fields of one RateLimiter instance
bucketOf(b) == <<tokens[b], lastRefillTime[b], pendingRequests[b]>>

\* callers reach the limiters through getRateLimiter
AcquireOn(api) == Acquire(getRateLimiter(api))
GetStateOn(api) == GetState(getRateLimiter(api))

MaxSharedCallers == 3
MaxSharedTime == 2

\* the three limiters driven side by side on one clock
NextBuckets ==
  \/ \E api \in APIs : totalCalls < MaxSharedCallers /\ AcquireOn(api)
  \/ \E api \in APIs : TimerFire(api)
  \/ \E api \in APIs : GetStateOn(api)
  \/ (now < MaxSharedTime /\ Tick)

SpecBuckets == Init /\ [][NextBuckets]_vars

\* a function about to be called on its own with an argument out of S
InitCall(S) ==
  /\ now = 0
  /\ InitRL
  /\ InitApp
  /\ InitOther
  /\ keyConfigured = [a \in {"omdb", "streaming"} |-> TRUE]
  /\ arg \in S
  /\ result = NotCalled
  /\ InitHealth
  /\ tmdbKeyConfigured = TRUE

\* validateMovieId called with each id of MovieIdInputs
InitValidateMovieId == InitCall(MovieIdInputs)
NextValidateMovieId == CallValidateMovieId

SpecValidateMovieId == InitValidateMovieId /\ [][NextValidateMovieId]_vars

\* validateSearchQuery called with each query of QueryInputs
InitValidateSearchQuery == InitCall(QueryInputs)
NextValidateSearchQuery == CallValidateSearchQuery

SpecValidateSearchQuery ==
  InitValidateSearchQuery /\ [][NextValidateSearchQuery]_vars

\* the rating aggregation run on each body of RatingInputs
InitAggregateRatings == InitCall(RatingInputs)
NextAggregateRatings == CallAggregateRatings

SpecAggregateRatings == InitAggregateRatings /\ [][NextAggregateRatings]_vars

\* any configuration of the three API keys, no request yet
InitHealthAnyKeys ==
  /\ now = 0
  /\ InitRL
  /\ InitApp
  /\ InitOther
  /\ InitNoCall
  /\ InitHealth
  /\ keyConfigured \in [{"omdb", "streaming"} -> BOOLEAN]
  /\ tmdbKeyConfigured \in BOOLEAN

\* the health route serving the requests of the slots H
NextHealthOf(H) ==
  \/ \E h \in H : HealthReceive(h)
  \/ \E h \in H : \E api \in APIs : \E outcome \in ProbeOutcomes(api) :
       ProbeSettle(h, api, outcome)
  \/ \E h \in H : \E api \in APIs : ProbeTimeout(h, api)
  \/ \E h \in H : HealthFinish(h)
  \/ \E h \in H : HealthReset(h)
  \/ (now < MaxHealthTime /\ noProbeOverdue /\ Tick)

\* Health requests served one after the other
NextHealth == NextHealthOf({1})

SpecHealth == InitHealthAnyKeys /\ [][NextHealth]_vars

\* two Health requests in progress at the same time
MaxHealthPairRequests == 2
MaxHealthPairTime == 1
PairProbeOutcomes == {"2xx", "5xx"}

NextHealthPair ==
  \/ \E h \in HReqs :
       healthReceived < MaxHealthPairRequests /\ HealthReceive(h)
  \/ \E h \in HReqs : \E api \in APIs : \E outcome \in PairProbeOutcomes :
       ProbeSettle(h, api, outcome)
  \/ \E h \in HReqs : \E api \in APIs : ProbeTimeout(h, api)
  \/ \E h \in HReqs : HealthFinish(h)
  \/ \E h \in HReqs : HealthReset(h)
  \/ (now < MaxHealthPairTime /\ noProbeOverdue /\ Tick)

SpecHealthPair == Init /\ [][NextHealthPair]_vars

\* each operation that sends a request, building it
InitBuildRequest == InitCall(RequestInputs)
NextBuildRequest == CallBuildRequest

SpecBuildRequest == InitBuildRequest /\ [][NextBuildRequest]_vars

\* the trailer selection run on each video list of VideoInputs
InitSelectTrailer == InitCall(VideoInputs)
NextSelectTrailer == CallSelectTrailer

SpecSelectTrailer == InitSelectTrailer /\ [][NextSelectTrailer]_vars

\* SimpleCache driven by arbitrary set() and get() calls
NextCache ==
  \/ \E k \in CacheKeys : \E v \in CacheValues : CacheSet(k, v)
  \/ \E k \in CacheKeys : CacheGet(k)
  \/ (now < MaxCacheTime /\ Tick)

SpecCache == Init /\ [][NextCache]_vars

\* the Enrich route with its three clients and the cache, serving the
\* requests of the slots R
NextEnrichOf(R) ==
  \/ \E r \in R : \E input \in EnrichInputs : Receive(r, input)
  \/ \E r \in R : \E api \in APIs : \E outcome \in Outcomes(api) :
       \E body \in (IF outcome = "ok" THEN Bodies(api) ELSE {Undefined}) :
         Response(r, api, outcome, body)
  \/ \E r \in R : Continue(r)
  \/ \E r \in R : Finish(r)
  \/ \E r \in R : Reset(r)
  \/ (now < MaxAppTime /\ Tick)

\* requests served one after the other
NextEnrich == NextEnrichOf({1})

SpecEnrich == InitAnyKeys /\ [][NextEnrich]_vars

\* some fetch() issued for request r settles
Settle(r) ==
  \E api \in APIs : \E outcome \in Outcomes(api) :
    \E body \in (IF outcome = "ok" THEN Bodies(api) ELSE {Undefined}) :
      Response(r, api, outcome, body)

\* every fetch() that was issued settles, and the event loop resumes GET
\* once the promise it awaits has settled
FairEnrich ==
  \A r \in Reqs :
    WF_vars(Settle(r)) /\ WF_vars(Continue(r)) /\ WF_vars(Finish(r))

SpecEnrichLive == InitAnyKeys /\ [][NextEnrich]_vars /\ FairEnrich

\* two Enrich requests for the same movie in progress at the same time
MaxPairRequests == 2
MaxPairTime == 1
PairOutcomes == {"ok", "http_error"}

NextEnrichPair ==
  \/ \E r \in Reqs : received < MaxPairRequests /\ Receive(r, TheMovie)
  \/ \E r \in Reqs : \E api \in APIs : \E outcome \in PairOutcomes :
       \E body \in (IF outcome = "ok" THEN Bodies(api) ELSE {Undefined}) :
         Response(r, api, outcome, body)
  \/ \E r \in Reqs : Continue(r)
  \/ \E r \in Reqs : Finish(r)
  \/ \E r \in Reqs : Reset(r)
  \/ (now < MaxPairTime /\ Tick)

SpecEnrichPair == Init /\ [][NextEnrichPair]_vars

\* the same, the ratings upstream also answering with untyped bodies
NextEnrichAnyBody ==
  \/ NextEnrich
  \/ \E body \in UntypedOMDbBodies : Response(1, "omdb", "ok", body)

SpecEnrichAnyBody == InitAnyKeys /\ [][NextEnrichAnyBody]_vars

\* ------------------------------------------------------------------------
\* Claims: the Enrich route
\* ------------------------------------------------------------------------
Failures == {"http_error", "network_error", "malformed"}
CatalogOk == {"ok", "hit"}

\* C1: whenever the catalog-detail fetch of a request fails, the request
\* ends with status 500 and never goes on to the ratings fetch, whatever
\* the streaming fetch did.
C1_CriticalFailureFails ==
  \A r \in Reqs :
    req[r].how.tmdb \in Failures =>
      /\ req[r].pc \in {"fetching", "done"}
      /\ req[r].pc = "done" => req[r].resp.status = 500

C1_Witness ==
  \E r \in Reqs :
    /\ req[r].pc = "done"
    /\ req[r].how.tmdb \in Failures
    /\ req[r].how.streaming = "ok"
    /\ req[r].streaming.val.options # <<>>

\* C2: whenever the streaming fetch fails and the catalog fetch succeeds,
\* the request ends with status 200 and an empty streamingOptions list.
C2_StreamingFailureTolerated ==
  \A r \in Reqs :
    ( /\ req[r].pc = "done"
      /\ req[r].how.tmdb \in CatalogOk
      /\ req[r].how.streaming \in Failures )
    => /\ req[r].resp.status = 200
       /\ req[r].resp.movie.streamingOptions = <<>>

C2_Witness ==
  \E r \in Reqs :
    /\ req[r].pc = "done"
    /\ req[r].how.tmdb = "ok"
    /\ req[r].how.streaming = "network_error"
    /\ req[r].resp.status = 200

C4_RatingsOptional ==
  \A r \in Reqs :
    ( /\ req[r].pc = "done"
      /\ req[r].how.tmdb \in CatalogOk
      /\ req[r].how.omdb \in Failures \cup {"skipped"} )
    => /\ req[r].resp.status = 200
       /\ req[r].resp.movie.rating =
            [imdb |-> Absent, rottenTomatoes |-> Absent, combined |-> Absent]

C4_Witness ==
  /\ \E r \in Reqs :
       /\ req[r].pc = "done"
       /\ req[r].how.tmdb \in CatalogOk
       /\ req[r].how.omdb \in Failures
       /\ req[r].resp.status = 200
       /\ req[r].resp.movie.rating.imdb = Absent

\* C5: no outbound call is made to an upstream without a token having been
\* taken from that upstream's bucket: the calls issued never outnumber the
\* callers its limiter has admitted.
C5_TokenBeforeCall ==
  \A api \in APIs : netCalls[api] <= Len(admitted[api])

\* ------------------------------------------------------------------------
\* Claims: the rate limiter
\* ------------------------------------------------------------------------
pendingSet(api) ==
  {pendingRequests[api][i] : i \in 1..Len(pendingRequests[api])}

\* the admissions of the callers that had been queued, in the order made
queuedAdmissions(api) ==
  SelectSeq(admitted[api], LAMBDA a : callInfo[api][a.id].queued)

\* C6: of the callers queued on an empty bucket, refillRate are admitted at
\* each following refill interval, with no further acquire() needed: a
\* caller that no later caller has overtaken is out of the queue once the
\* refill boundary of its queue position has passed.
C6_QueuedAdmittedOnSchedule ==
  \A api \in APIs : \A c \in pendingSet(api) :
    (\A j \in (c + 1)..Len(callInfo[api]) : callInfo[api][j].queued)
      => now <= callInfo[api][c].deadline

\* C7: within one bucket the admission order is the arrival order over all
\* callers: nobody is admitted while a caller that arrived earlier waits.
C7_AdmissionIsArrivalOrder ==
  \A api \in APIs :
    /\ \A i, j \in 1..Len(admitted[api]) :
         i < j => admitted[api][i].id < admitted[api][j].id
    /\ \A c \in pendingSet(api) : \A i \in 1..Len(admitted[api]) :
         admitted[api][i].id < c

\* C8: among the callers that waited in one bucket's queue, the one that
\* called acquire() first is resolved first.
C8_QueueFIFO ==
  \A api \in APIs :
    LET q == queuedAdmissions(api) IN
    /\ \A i, j \in 1..Len(q) : i < j => q[i].id < q[j].id
    /\ \A c \in pendingSet(api) : \A i \in 1..Len(q) : q[i].id < c

C8_Witness ==
  \E api \in APIs :
    /\ Len(queuedAdmissions(api)) >= 2
    /\ pendingRequests[api] # <<>>

\* C9: 0 <= availableTokens <= maxTokens in every reachable state.
C9_TokensInRange ==
  \A api \in APIs : tokens[api] >= 0 /\ tokens[api] <= config(api).maxTokens

C9_Witness ==
  \E api \in APIs :
    /\ tokens[api] = config(api).maxTokens
    /\ Len(admitted[api]) >= config(api).maxTokens
    /\ refills[api] > 0

\* C10: counting the acquire() calls made since the bucket was full with no
\* refill in between, calls 1..maxTokens resolve without being queued, call
\* maxTokens+1 is queued, and a queued call resolves only after a refill
\* that came after it was queued.
C10_BurstThenQueue ==
  \A api \in APIs : \A i \in 1..Len(callInfo[api]) :
    LET c == callInfo[api][i] IN
    /\ c.burstIdx \in 1..config(api).maxTokens => ~c.queued
    /\ c.burstIdx = config(api).maxTokens + 1 => c.queued
    /\ \A k \in 1..Len(admitted[api]) :
         (admitted[api][k].id = i /\ c.queued)
           => admitted[api][k].refills > c.refills

C10_Witness ==
  \E api \in APIs : \E k \in 1..Len(admitted[api]) :
    /\ callInfo[api][admitted[api][k].id].burstIdx = config(api).maxTokens + 1
    /\ callInfo[api][admitted[api][k].id].time = 0

\* ------------------------------------------------------------------------
\* Claims: the three buckets side by side
\* ------------------------------------------------------------------------
\* C11: an acquire(), getState() or timer callback of one upstream's
\* limiter leaves tokens, lastRefillTime and pendingRequests of the other
\* two limiters unchanged, and an acquire() on a limiter that holds a token
\* after its own refill is admitted at once, whatever the other limiters'
\* state.
C11_BucketsIndependent ==
  [][\A api \in APIs :
       /\ (AcquireOn(api) \/ GetStateOn(api) \/ TimerFire(api))
            => \A b \in APIs \ {api} : bucketOf(b)' = bucketOf(b)
       /\ (AcquireOn(api) /\ refillTokens(api) > 0)
            => Len(admitted'[api]) = Len(admitted[api]) + 1]_vars

C11_Witness ==
  \E a \in APIs : \E b \in APIs \ {a} :
    /\ tokens[a] = 0
    /\ pendingRequests[a] # <<>>
    /\ admitted[b] # <<>>
    /\ callInfo[a][Len(callInfo[a])].time < admitted[b][1].time

\* ------------------------------------------------------------------------
\* Claims: the cache in front of the clients
\* ------------------------------------------------------------------------
\* the cache holds an entry for `key` that get() would still return
unexpired(c, key) ==
  key \in DOMAIN c /\ ~(now - c[key].timestamp > CacheTTL)

\* request r starts its client call `api` in this step
startsCall(r, api) == req[r][api].st = "none" /\ req'[r][api].st # "none"

\* C12: a client call that starts while the cache holds an unexpired entry
\* for its key is fulfilled with the cached value at once, issues no
\* network call and takes no token from any limiter.
C12_HitSkipsNetwork ==
  [][\A r \in Reqs : \A api \in APIs :
       (startsCall(r, api) /\ unexpired(cache, keyOf(r, api)'))
         => /\ req'[r][api] = Fulfilled(cache[keyOf(r, api)'].data)
            /\ netCalls'[api] = netCalls[api]
            /\ tokens' = tokens]_vars

C12_Witness ==
  \E r \in Reqs : \E api \in APIs :
    /\ req[r].how[api] = "hit"
    /\ req[r][api].st = "fulfilled"
    /\ netCalls[api] = 1
    /\ received = 2

\* C13: cache.get(k) returns absent for a key that was never set, and for a
\* key whose last set() is more than the TTL ago, in which case the read
\* has removed the entry from the map.
C13_NoStaleRead ==
  lastGet.key # "" =>
    LET k == lastGet.key IN
    /\ k \notin DOMAIN written => lastGet.val = NullVal
    /\ (k \in DOMAIN written /\ lastGet.at - written[k].at > CacheTTL)
         => (lastGet.val = NullVal /\ k \notin DOMAIN cache)

C13_Witness ==
  /\ lastGet.key \in DOMAIN written
  /\ lastGet.at - written[lastGet.key].at > CacheTTL
  /\ lastGet.val = NullVal

\* C14: set(k, v) followed by get(k) no later than the TTL after it, with
\* no set() in between, returns v.
C14_RoundTrip ==
  ( /\ lastGet.key \in DOMAIN written
    /\ lastGet.at - written[lastGet.key].at <= CacheTTL )
  => lastGet.val = written[lastGet.key].data

C14_Witness ==
  /\ lastGet.key \in DOMAIN written
  /\ lastGet.at - written[lastGet.key].at = CacheTTL
  /\ lastGet.val = written[lastGet.key].data
  /\ \E k \in DOMAIN written : k # lastGet.key

\* ------------------------------------------------------------------------
\* Claims: validation in front of the Enrich route
\* ------------------------------------------------------------------------
\* C15: a request whose id fails validateMovieId is answered 400 with the
\* validation error in the step that receives it, with no client call
\* started, no network call issued and the cache untouched; a request that
\* has started a client call carries a validated id.
C15_InvalidIdNoFetch ==
  [][\A r \in Reqs :
       /\ \A input \in EnrichInputs :
            (Receive(r, input) /\ ~validateMovieId(input).valid)
              => /\ req'[r].pc = "done"
                 /\ req'[r].resp.status = 400
                 /\ req'[r].resp.error = validateMovieId(input).error
                 /\ \A api \in APIs : req'[r][api] = NotStarted
                 /\ netCalls' = netCalls
                 /\ cache' = cache
       /\ (\E api \in APIs : req'[r][api].st # "none")
            => req'[r].movieId \in 1..MaxMovieId]_vars

C15_Witness ==
  \E r \in Reqs :
    /\ req[r].pc = "done"
    /\ req[r].resp.status = 400
    /\ req[r].resp.error = "Movie ID must be an integer"
    /\ received = 2
    /\ cache # <<>>

\* C16: a request ends with a status other than 200 only when its id failed
\* validation (400) or its catalog fetch failed; every other request that
\* ends, ends with status 200 and the catalog record's id and title.
C16_FailedOnlyOnCritical ==
  \A r \in Reqs :
    req[r].pc = "done" =>
      \/ req[r].resp.status = 400 /\ req[r].how.tmdb = "none"
      \/ req[r].resp.status = 500 /\ req[r].how.tmdb \in Failures
      \/ /\ req[r].resp.status = 200
         /\ req[r].how.tmdb \in CatalogOk
         /\ req[r].resp.movie.id = req[r].tmdb.val.id
         /\ req[r].resp.movie.title = req[r].tmdb.val.title

\* ------------------------------------------------------------------------
\* Claims: validation
\* ------------------------------------------------------------------------
\* the id parses as an integer n with 0 < n <= 10,000,000
parsesInRange(id) ==
  /\ id # Null
  /\ ~parseInt(id).nan
  /\ parseInt(id).n > 0
  /\ parseInt(id).n <= MaxMovieId

C18_ValidIffNoControl ==
  result # NotCalled =>
    (result.valid <=>
       /\ arg # NullQuery
       /\ Len(trimCodes(arg)) >= 1
       /\ Len(trimCodes(arg)) <= MaxQueryLength
       /\ \A i \in 1..Len(trimCodes(arg)) : trimCodes(arg)[i] \notin 0..31)

\* ------------------------------------------------------------------------
\* Claims: rating aggregation
\* ------------------------------------------------------------------------
\* a rating is present when it is a number, zero included
present(x) == x >= 0

\* C19: with p the primary rating (tenths) and s the secondary rating
\* (percent), zero included: both present, combined = (p + s/10)/2; one
\* present, combined is that one on the 0-10 scale; none, combined is
\* absent.  In twentieths: p + s, 2p, 2s.
C19_CombinedRating ==
  result # NotCalled =>
    LET p == result.imdb
        s == result.rottenTomatoes
    IN result.combined =
         IF present(p) /\ present(s) THEN p + s
         ELSE IF present(p) THEN 2 * p
         ELSE IF present(s) THEN 2 * s
         ELSE Absent

\* ------------------------------------------------------------------------
\* Claims: health
\* ------------------------------------------------------------------------
\* C20: every Health response, fresh or served from the cache, carries the
\* aggregate of its three dependency statuses: catalog down gives unhealthy
\* with 503; catalog up and ratings or streaming down gives degraded with
\* 200; all three up gives healthy with 200.
C20_AggregateHealth ==
  \A h \in HReqs :
    hreq[h].pc = "done" =>
      LET d == hreq[h].resp.data.dependencies
          st == hreq[h].resp.data.status
          code == hreq[h].resp.code
      IN
      /\ d["tmdb"].status = "down" => (st = "unhealthy" /\ code = 503)
      /\ ( /\ d["tmdb"].status = "up"
           /\ (d["omdb"].status = "down" \/ d["streaming"].status = "down") )
         => (st = "degraded" /\ code = 200)
      /\ (\A a \in APIs : d[a].status = "up")
         => (st = "healthy" /\ code = 200)

C20_Witness ==
  \E h \in HReqs :
    /\ hreq[h].pc = "done"
    /\ hreq[h].fromCache
    /\ hreq[h].resp.code = 503
    /\ hreq[h].resp.data.dependencies["tmdb"].status = "down"
    /\ hreq[h].resp.data.dependencies["omdb"].status = "up"
    /\ hreq[h].resp.data.dependencies["streaming"].status = "up"

\* request h arrives in this step
healthArrives(h) == hreq[h].pc = "idle" /\ hreq'[h].pc # "idle"

\* C21: a Health request that arrives while the cached result is less
\* than the TTL old is answered with the cached data as a whole, runs no
\* check and leaves the cached result alone; one that arrives with no
\* cached result or with one that is TTL old or older runs all three
\* checks afresh, and when they have finished its result replaces the
\* cached one.
C21_HealthCacheWindow ==
  [][\A h \in HReqs :
       /\ ( /\ healthArrives(h)
            /\ cachedHealthCheck # NullVal
            /\ now - cachedHealthCheck.timestamp < HealthCheckCacheTTL )
          => /\ hreq'[h].pc = "done"
             /\ hreq'[h].resp.data = cachedHealthCheck.data
             /\ hreq'[h].probes = hreq[h].probes
             /\ cachedHealthCheck' = cachedHealthCheck
       /\ ( /\ healthArrives(h)
            /\ \/ cachedHealthCheck = NullVal
               \/ now - cachedHealthCheck.timestamp >= HealthCheckCacheTTL )
          => /\ hreq'[h].pc = "probing"
             /\ \A a \in APIs :
                  hreq'[h].probes[a] =
                    IF apiKeySet(a) THEN PendingProbe ELSE Down
       /\ (hreq[h].pc = "probing" /\ hreq'[h].pc = "done")
          => /\ cachedHealthCheck'.data = hreq'[h].resp.data
             /\ cachedHealthCheck'.data.dependencies = hreq[h].probes
             /\ cachedHealthCheck'.timestamp = hreq[h].startedAt]_vars

C21_Witness ==
  \E h \in HReqs :
    /\ hreq[h].pc = "probing"
    /\ cachedHealthCheck # NullVal
    /\ hreq[h].startedAt - cachedHealthCheck.timestamp = HealthCheckCacheTTL

\* the response status of a check's fetch is 2xx
is2xx(outcome) == outcome \in {"2xx", "2xx_false", "2xx_malformed"}

\* the checks that have returned, in the requests still at hand
settledProbes ==
  {<<h, a>> \in HReqs \X APIs : hreq[h].outcome[a] # "none"}

\* C22: a check returns up exactly when the response status is 2xx and,
\* for the ratings upstream, the body is JSON whose Response is not
\* 'False' (for streaming also when the status is 404 or 403); it returns
\* down on any other status, on timeout, on network error and when the
\* API key is unset; a latency is recorded exactly when the status is up.
C22_ProbeClassification ==
  \A <<h, a>> \in settledProbes :
    LET o == hreq[h].outcome[a]
        d == hreq[h].probes[a]
    IN
    /\ d.status = "up" <=>
         \/ o = "2xx"
         \/ (a = "streaming" /\ o \in {"404", "403"})
    /\ d.status = "down" <=> ~(d.status = "up")
    /\ present(d.latency) <=> d.status = "up"

C22_Witness ==
  \E h \in HReqs :
    /\ hreq[h].pc = "probing"
    /\ hreq[h].outcome["omdb"] = "2xx_false"
    /\ hreq[h].probes["omdb"] = Down
    /\ hreq[h].outcome["streaming"] = "404"
    /\ hreq[h].probes["streaming"].status = "up"
    /\ hreq[h].outcome["tmdb"] = "timeout"

\* C22 as stated: up exactly when the response status is 2xx (for
\* streaming also 404 or 403).
C22_UpIffStatus2xx ==
  \A <<h, a>> \in settledProbes :
    hreq[h].outcome[a] \notin {"nokey", "timeout", "network_error"} =>
      ( hreq[h].probes[a].status = "up" <=>
          \/ is2xx(hreq[h].outcome[a])
          \/ (a = "streaming" /\ hreq[h].outcome[a] \in {"404", "403"}) )

C24_NoRetries ==
  [][\A api \in APIs :
       /\ netCalls'[api] <= netCalls[api] + 1
       /\ netCalls'[api] > netCalls[api] => \E r \in Reqs : startsCall(r, api)
       /\ \A r \in Reqs :
            (req[r][api].st # "none" /\ req'[r][api].st = "none")
              => (req[r].pc = "done" /\ req'[r].pc = "idle")
       /\ \A r \in Reqs :
            (req[r][api].st \in {"fulfilled", "rejected"}
               /\ req'[r].pc # "idle")
              => req'[r][api] = req[r][api]]_vars

C24_Witness ==
  \E r \in Reqs :
    /\ req[r].pc = "done"
    /\ req[r].how.tmdb = "ok"
    /\ req[r].how.streaming = "http_error"
    /\ req[r].how.omdb = "network_error"
    /\ received = 1
    /\ netCalls = [a \in APIs |-> 1]

\* ------------------------------------------------------------------------
\* Claims: outbound requests
\* ------------------------------------------------------------------------
\* C25: the URL of no outbound request, of a client operation or of a
\* health probe, has the upstream's API key among its parts.
C25_NoCredentialInUrl ==
  result # NotCalled =>
    \A i \in 1..Len(result.url) : result.url[i] # ApiKey(upstreamOf(arg.op))

\* ------------------------------------------------------------------------
\* Claims: trailer selection
\* ------------------------------------------------------------------------
first(S) == IF S = {} THEN 0 ELSE CHOOSE i \in S : \A j \in S : i <= j

\* C26: the trailer is the first YouTube entry that is of trailer type and
\* official if there is one, otherwise the first YouTube entry of trailer
\* type, otherwise absent; entries of another platform are never chosen,
\* official or not.
C26_TrailerSelection ==
  (result # NotCalled /\ arg.defined) =>
    LET vs  == arg.results
        off == {i \in 1..Len(vs) : /\ vs[i].type = "Trailer"
                                   /\ vs[i].official
                                   /\ vs[i].site = "YouTube"}
        any == {i \in 1..Len(vs) : /\ vs[i].type = "Trailer"
                                   /\ vs[i].site = "YouTube"}
    IN result.index = IF off # {} THEN first(off) ELSE first(any)

C26_Witness ==
  /\ result # NotCalled
  /\ arg.defined
  /\ Len(arg.results) = 2
  /\ arg.results[1] = [type |-> "Trailer", site |-> "Vimeo", official |-> TRUE]
  /\ arg.results[2] =
       [type |-> "Trailer", site |-> "YouTube", official |-> FALSE]
  /\ result.index = 2

\* C26 as stated: the first entry that is of trailer type and official if
\* one exists, otherwise the first entry of trailer type on the platform.
C26_FirstOfficialTrailer ==
  (result # NotCalled /\ arg.defined) =>
    LET vs  == arg.results
        off == {i \in 1..Len(vs) : vs[i].type = "Trailer" /\ vs[i].official}
        any == {i \in 1..Len(vs) : /\ vs[i].type = "Trailer"
                                   /\ vs[i].site = "YouTube"}
    IN result.index = IF off # {} THEN first(off) ELSE first(any)

\* ------------------------------------------------------------------------
\* Claims: re-arming of the refill timer
\* ------------------------------------------------------------------------
\* C27: whenever a bucket's pending queue is non-empty, a setTimeout
\* callback is outstanding for that bucket (a callback that leaves callers
\* queued arms another one).
C27_PendingHasTimer ==
  \A api \in APIs : pendingRequests[api] # <<>> => timers[api] # <<>>

\* ------------------------------------------------------------------------
\* Claims: the route waits for both parallel fetches
\* ------------------------------------------------------------------------
\* C28: while the catalog fetch or the streaming fetch of an Enrich request
\* has not settled, the request is still waiting in Promise.allSettled and
\* has produced no response, neither a success nor the 500 of a failed
\* catalog fetch; this holds as long as the fetch stays unsettled.
C28_NoResponseBeforeBothSettle ==
  \A r \in Reqs :
    (req[r].tmdb.st = "inflight" \/ req[r].streaming.st = "inflight")
      => (req[r].pc = "fetching" /\ req[r].resp = IdleReq.resp)

\* the catalog fetch has failed, the streaming fetch hangs: no 500 yet
C28_Witness ==
  \E r \in Reqs :
    /\ req[r].tmdb.st = "rejected"
    /\ req[r].streaming.st = "inflight"
    /\ req[r].pc = "fetching"
    /\ req[r].resp.status = 0

\* ------------------------------------------------------------------------
\* Claims: termination of an Enrich request
\* ------------------------------------------------------------------------
\* the stages of GET in the order the code passes them: validation (idle,
\* left within Receive), the parallel catalog and streaming fetches, the
\* ratings fetch, and the response (merging happens within the last step)
stage(pc) ==
  CASE pc = "idle" -> 0
    [] pc = "fetching" -> 1
    [] pc = "ratings" -> 2
    [] pc = "done" -> 3

\* C29: when every fetch issued for an Enrich request settles, the request
\* that is fetching eventually has its response, and the response is either
\* the success (200 with the movie) or a failure (400 or 500 without it);
\* a request only moves forward through its stages, and its response, once
\* produced, does not change.
C29_Terminates ==
  /\ \A r \in Reqs :
       (req[r].pc \in {"fetching", "ratings"}) ~>
         (/\ req[r].pc = "done"
          /\ req[r].resp.status \in {200, 400, 500}
          /\ (req[r].resp.status = 200) <=> (req[r].resp.movie # NoMovie))
  /\ [][\A r \in Reqs :
         \/ req'[r].pc = req[r].pc /\ req'[r].resp = req[r].resp
         \/ stage(req'[r].pc) > stage(req[r].pc) /\ req[r].pc # "done"
         \/ req[r].pc = "done" /\ req'[r] = IdleReq]_vars

\* a request went through every stage and was answered with the movie
C29_Witness ==
  \E r \in Reqs :
    /\ req[r].pc = "done"
    /\ req[r].resp.status = 200
    /\ req[r].how.tmdb = "ok"
    /\ req[r].how.omdb = "ok"

\* ------------------------------------------------------------------------
\* Claims: numerics of refill()
\* ------------------------------------------------------------------------
\* C30: with elapsed = now - lastRefillTime, a refill (getState() runs
\* refill() and nothing else) leaves min(maxTokens, tokens +
\* floor(elapsed / refillInterval) * refillRate) tokens, never fewer than
\* before; no step leaves more tokens than that; while elapsed is less than
\* refillInterval no step adds a token or changes lastRefillTime; and
\* lastRefillTime never moves backwards.
C30_RefillNumerics ==
  [][\A api \in APIs :
       LET elapsed  == now - lastRefillTime[api]
           n        == elapsed \div config(api).refillInterval
           refilled == Min(config(api).maxTokens,
                           tokens[api] + n * config(api).refillRate)
       IN
       /\ lastRefillTime'[api] >= lastRefillTime[api]
       /\ tokens'[api] <= refilled
       /\ elapsed < config(api).refillInterval =>
            /\ lastRefillTime'[api] = lastRefillTime[api]
            /\ tokens'[api] <= tokens[api]
       /\ GetState(api) =>
            /\ tokens'[api] = refilled
            /\ tokens'[api] >= tokens[api]]_vars

\* a refill after one and a half intervals on the drained burst bucket
\* added the tokens of one interval
C30_Witness ==
  /\ Len(admitted["tmdb"]) = BurstTokens
  /\ refills["tmdb"] = 1
  /\ lastRefillTime["tmdb"] = RefillInterval + 1
  /\ tokens["tmdb"] = SteadyRate
  /\ tokens["tmdb"] < BurstTokens

\* ------------------------------------------------------------------------
\* Claims: concurrent writes to one cache key
\* ------------------------------------------------------------------------
\* C31: a client call that starts on a miss issues its own network call,
\* whatever other request is already fetching the same key; and whenever a
\* network call succeeds, the cache entry of its key is from then on the
\* value of that call stamped with the time of its completion, whatever
\* entry an earlier completed call had left there.
C31_LastWriteWins ==
  [][\A r \in Reqs : \A api \in APIs :
       /\ (startsCall(r, api) /\ req'[r][api].st = "inflight")
            => netCalls'[api] = netCalls[api] + 1
       /\ (req[r][api].st = "inflight" /\ req'[r][api].st = "fulfilled"
             /\ req'[r].how[api] = "ok")
            => /\ keyOf(r, api) \in DOMAIN cache'
               /\ cache'[keyOf(r, api)] =
                    [data |-> req'[r][api].val, timestamp |-> now]]_vars

\* both requests missed on the catalog key at time 0 and fetched; the
\* call of request 1 completed at time 0, the call of request 2 at time 1
\* with another body, and the cache holds the latter
C31_Witness ==
  /\ received = 2
  /\ netCalls["tmdb"] = 2
  /\ req[1].how.tmdb = "ok"
  /\ req[2].how.tmdb = "ok"
  /\ req[1].tmdb.val # req[2].tmdb.val
  /\ now = 1
  /\ tmdbKey(7) \in DOMAIN cache
  /\ cache[tmdbKey(7)] = [data |-> req[2].tmdb.val, timestamp |-> 1]

\* ------------------------------------------------------------------------
\* Claims: what is written to the cache
\* ------------------------------------------------------------------------
\* the client call `api` of request r ends in this step, its fetch having
\* failed or the upstream having answered 'no data'
endsInFailure(r, api) ==
  /\ req[r][api].st = "inflight"
  /\ req'[r][api].st # "inflight"
  /\ req'[r].how[api] \in Failures \cup {"no_data"}

\* the client call `api` of request r ends in this step with the body of a
\* successful fetch
endsInSuccess(r, api) ==
  /\ req[r][api].st = "inflight"
  /\ req'[r][api].st = "fulfilled"
  /\ req'[r].how[api] = "ok"

\* C32: a client call that ends in a non-2xx status, a network error, an
\* unreadable body or an upstream 'no data' reply leaves the cache map
\* unchanged; an entry appears or changes only in a step in which a client
\* call ends in success, under the key of that call; so no entry holds the
\* null of a failed call.
C32_OnlySuccessCached ==
  /\ [](\A k \in DOMAIN cache : cache[k].data # NullVal)
  /\ [][(\A r \in Reqs : \A api \in APIs :
            endsInFailure(r, api) => cache' = cache)
         /\
         (\A k \in DOMAIN cache' :
            (k \notin DOMAIN cache \/ cache'[k] # cache[k])
              => \E r \in Reqs : \E api \in APIs :
                   endsInSuccess(r, api) /\ k = keyOf(r, api))]_vars

\* the ratings upstream answered 'no data' and nothing was cached for it
C32_Witness ==
  \E r \in Reqs :
    /\ req[r].pc = "done"
    /\ req[r].how.tmdb = "ok"
    /\ req[r].how.omdb = "no_data"
    /\ netCalls["omdb"] = 1
    /\ tmdbKey(7) \in DOMAIN cache
    /\ omdbKey("tt7") \notin DOMAIN cache

\* ------------------------------------------------------------------------
\* Claims: optional upstreams without a credential
\* ------------------------------------------------------------------------
OptionalAPIs == {"omdb", "streaming"}

\* the cache keys the client of `api` uses
clientKeys(api) ==
  CASE api = "tmdb" -> {tmdbKey(parseInt(TheMovie).n)}
    [] api = "streaming" -> {streamingKey(parseInt(TheMovie).n)}
    [] api = "omdb" -> {omdbKey(i) : i \in ImdbIds}

\* C33: while the API key of the ratings or the streaming upstream is not
\* configured, no network call goes to that upstream and the cache never
\* holds an entry under that client's keys; a client call to it is
\* fulfilled at once with null (ratings) or the empty list (streaming),
\* the ratings call leaving the cache map as it is; and a request whose
\* catalog fetch succeeded ends with status 200, with no streaming option
\* or with every rating field absent.
C33_UnconfiguredOptional ==
  /\ [](\A api \in OptionalAPIs : ~keyConfigured[api] =>
          /\ netCalls[api] = 0
          /\ DOMAIN cache \cap clientKeys(api) = {}
          /\ \A r \in Reqs :
               /\ req[r][api].st \in {"none", "fulfilled"}
               /\ req[r][api].st = "fulfilled" =>
                    /\ req[r][api].val = unconfiguredResult(api)
                    /\ req[r].how[api] = "nokey"
               /\ ( /\ req[r].pc = "done"
                    /\ req[r].how[api] = "nokey"
                    /\ req[r].how.tmdb \in CatalogOk ) =>
                    /\ req[r].resp.status = 200
                    /\ api = "streaming" =>
                         req[r].resp.movie.streamingOptions = <<>>
                    /\ api = "omdb" =>
                         req[r].resp.movie.rating =
                           [imdb |-> Absent, rottenTomatoes |-> Absent,
                            combined |-> Absent])
  /\ [][\A r \in Reqs :
         (startsCall(r, "omdb") /\ ~keyConfigured["omdb"])
           => cache' = cache]_vars

\* neither optional key is configured: the request succeeded on the
\* catalog fetch alone
C33_Witness ==
  \E r \in Reqs :
    /\ keyConfigured = [a \in OptionalAPIs |-> FALSE]
    /\ req[r].pc = "done"
    /\ req[r].how = [tmdb |-> "ok", streaming |-> "nokey", omdb |-> "nokey"]
    /\ req[r].resp.status = 200
    /\ netCalls = [tmdb |-> 1, streaming |-> 0, omdb |-> 0]

\* ------------------------------------------------------------------------
\* Claims: the admission bound of a bucket
\* ------------------------------------------------------------------------
\* C34: at every time `now` the callers a bucket has admitted since its
\* construction at time 0 number at most maxTokens + refillRate *
\* floor(now / refillInterval), whatever acquire(), getState() and timer
\* callbacks ran and in whatever order.
C34_AdmissionBound ==
  \A api \in APIs :
    Len(admitted[api]) <=
      config(api).maxTokens
        + config(api).refillRate * (now \div config(api).refillInterval)

\* the bound is met after a refill: the full burst and every refilled
\* token have been handed out
C34_Witness ==
  \E api \in APIs :
    /\ now >= config(api).refillInterval
    /\ refills[api] > 0
    /\ Len(admitted[api]) =
         config(api).maxTokens
           + config(api).refillRate * (now \div config(api).refillInterval)

\* ------------------------------------------------------------------------
\* Claims: tokens while callers wait
\* ------------------------------------------------------------------------
\* C35: after every acquire(), getState() and timer callback, a bucket
\* whose pendingRequests is non-empty holds no token.
C35_QueueImpliesNoToken ==
  \A api \in APIs : pendingRequests[api] # <<>> => tokens[api] = 0

\* ------------------------------------------------------------------------
\* Claims: getState() and the admission of callers
\* ------------------------------------------------------------------------
\* C36: of two limiters that receive the same acquire() calls at the same
\* times, one of them also being asked getState(), every caller admitted
\* by both is admitted at the same time and in the same position.
C36_GetStateNeutral ==
  \A i \in 1..Len(admitted[Unobserved]) :
    \A j \in 1..Len(admitted[Observed]) :
      admitted[Unobserved][i].id = admitted[Observed][j].id
        => /\ admitted[Unobserved][i].time = admitted[Observed][j].time
           /\ i = j

\* ------------------------------------------------------------------------
\* Claims: overlapping Health requests
\* ------------------------------------------------------------------------
\* C37: the timestamp of cachedHealthCheck never decreases: no step
\* replaces the cached result by one with an earlier timestamp.
C37_HealthTimestampMonotone ==
  [][(cachedHealthCheck # NullVal /\ cachedHealthCheck' # NullVal)
       => cachedHealthCheck'.timestamp >= cachedHealthCheck.timestamp]_vars

\* ------------------------------------------------------------------------
\* Claims: reads do not extend the life of an entry
\* ------------------------------------------------------------------------
\* C38: cache.get(k) on an unexpired entry leaves the whole map unchanged;
\* the timestamp of every entry is the time of the last set() of its key,
\* however often it was read since, so that the expiry of C13 counts from
\* the last set().
C38_ReadKeepsTimestamp ==
  /\ [](\A k \in DOMAIN cache :
          k \in DOMAIN written /\ cache[k].timestamp = written[k].at)
  /\ [][\A k \in CacheKeys :
         ( /\ lastGet'.key = k
           /\ written' = written
           /\ now' = now
           /\ unexpired(cache, k) )
         => cache' = cache]_vars

\* an entry was read at the last instant of its life and is still stamped
\* with the time of its set()
C38_Witness ==
  /\ lastGet.key \in DOMAIN cache
  /\ lastGet.val # NullVal
  /\ lastGet.at = written[lastGet.key].at + CacheTTL
  /\ lastGet.at = now
  /\ cache[lastGet.key].timestamp = now - CacheTTL

\* ------------------------------------------------------------------------
\* Claims: token accounting
\* ------------------------------------------------------------------------
\* the ids of the callers a bucket has admitted
admittedIds(api) == {admitted[api][i].id : i \in 1..Len(admitted[api])}

\* C39: token accounting is exact, step by step from the full bucket of
\* the constructor: a step either leaves the token count and the admitted
\* callers of a bucket as they are, or leaves the refilled count (capped at
\* maxTokens) minus one token per caller it admits; admitted callers stay
\* admitted; and every acquire() call is resolved at most once: no caller
\* is admitted twice, and every caller is either admitted or still queued.
C39_TokenAccounting ==
  /\ [](\A api \in APIs :
          /\ Cardinality(admittedIds(api)) = Len(admitted[api])
          /\ admittedIds(api) \cap pendingSet(api) = {}
          /\ admittedIds(api) \cup pendingSet(api) = 1..Len(callInfo[api])
          /\ Cardinality(pendingSet(api)) = Len(pendingRequests[api]))
  /\ [][\A api \in APIs :
         LET n        == (now - lastRefillTime[api])
                           \div config(api).refillInterval
             refilled == Min(config(api).maxTokens,
                             tokens[api] + n * config(api).refillRate)
             newly    == Len(admitted'[api]) - Len(admitted[api])
         IN
         /\ newly >= 0
         /\ SubSeq(admitted'[api], 1, Len(admitted[api])) = admitted[api]
         /\ \/ tokens'[api] = tokens[api] /\ newly = 0
            \/ tokens'[api] = refilled - newly]_vars

\* a bucket went through its burst, a refill and an admission from the
\* queue, and every caller has been admitted
C39_Witness ==
  \E api \in APIs :
    /\ refills[api] >= 1
    /\ pendingRequests[api] = <<>>
    /\ Len(admitted[api]) = Len(callInfo[api])
    /\ Len(admitted[api]) > config(api).maxTokens
    /\ \E i \in 1..Len(callInfo[api]) : callInfo[api][i].queued
    /\ tokens[api] = 0

====
